---- MODULE Spec2Model ----
(***************************************************************************)
(* Model of the OpenAI agent of AIPlaysPokemon (agent/openai_agent.py)     *)
(* and of the runtime coordinator that hosts it (main.py).                 *)
(*                                                                         *)
(* The foreground context (main) ticks the emulator and polls the keys;    *)
(* after the handoff key the background worker (ai_loop) calls             *)
(* OpenAIAgent.run(num_steps) again and again.  One step of run() captures *)
(* an observation, sends one request, appends two turns to                 *)
(* message_history, dispatches the returned tool calls and compacts the    *)
(* history when it has reached max_history.                                *)
(***************************************************************************)
EXTENDS Integers, Sequences, FiniteSets, TLC

\* ------------------------------------------------------------------ bounds
\* largest --max-history value tried (the values are 0..3 and MaxHist)
MaxHist == 4
\* --steps: the batch size ai_loop passes to run()
NumSteps == 2
\* most tool calls in one response of the reasoning service
MaxCalls == 2
\* longest path the solver returns
MaxPath == 2

\* ------------------------------------------------------ JSON argument text
\* The raw argument texts the reasoning service may send.  ArgsEmpty is the
\* empty text, ArgsBad is text that is not JSON, ArgsList and ArgsNull are
\* JSON that is not an object, the others are JSON objects.
ArgsEmpty == ""
ArgsBad == "{bad"
ArgsList == "[1]"
ArgsNull == "null"
ArgsPressNum == "{\"buttons\":5}"
ArgsBoth == "{\"buttons\":[\"a\",\"a\",\"start\"],\"wait\":false,\"row\":2,\"col\":3}"

\* all of them, for the dispatcher taken alone
AllRawArguments ==
    {ArgsEmpty, ArgsBad, ArgsList, ArgsNull, ArgsPressNum, ArgsBoth}

\* JSON values, all of one record shape so that they compare
JList(s) == [t |-> "list", items |-> s, n |-> 0]
JNum(k) == [t |-> "num", items |-> <<>>, n |-> k]
JNone == [t |-> "null", items |-> <<>>, n |-> 0]

\* a decoded JSON document: kind is the Python type json.loads returns
\* ("dict", "list", "NoneType") or "JSONDecodeError" when it raises
JDoc(kind, keys, buttons, wait, row, col) ==
    [kind |-> kind, keys |-> keys, buttons |-> buttons, wait |-> wait, row |-> row, col |-> col]

JDict(keys, buttons, wait, row, col) == JDoc("dict", keys, buttons, wait, row, col)

EmptyDict == JDict({}, JNone, TRUE, JNone, JNone)

json_loads(s) ==
    CASE s = "{}" -> EmptyDict
      [] s = ArgsPressNum -> JDict({"buttons"}, JNum(5), TRUE, JNone, JNone)
      [] s = ArgsBoth -> JDict({"buttons", "wait", "row", "col"}, JList(<<"a", "a", "start">>),
                               FALSE, JNum(2), JNum(3))
      [] s = ArgsList -> JDoc("list", {}, JNone, TRUE, JNone, JNone)
      [] s = ArgsNull -> JDoc("NoneType", {}, JNone, TRUE, JNone, JNone)
      [] OTHER -> JDoc("JSONDecodeError", {}, JNone, TRUE, JNone, JNone)

\* tool_call.function.arguments or "{}"
ArgumentsOrDefault(s) == IF s = "" THEN "{}" ELSE s

\* as DecodeArguments, the JSONDecodeError not caught
DecodeArgumentsUncaught(raw) == json_loads(ArgumentsOrDefault(raw))

\* lines 133-137: decode, and on JSONDecodeError use {}
DecodeArguments(raw) ==
    LET d == json_loads(ArgumentsOrDefault(raw))
    IN IF d.kind = "JSONDecodeError" THEN EmptyDict ELSE d

\* arguments.get(...) exists only on a dict
HasGet(arguments) == arguments.kind = "dict"

GetButtons(arguments) == IF "buttons" \in arguments.keys THEN arguments.buttons ELSE JList(<<>>)
GetWait(arguments) == IF "wait" \in arguments.keys THEN arguments.wait ELSE TRUE
GetRow(arguments) == IF "row" \in arguments.keys THEN arguments.row ELSE JNone
GetCol(arguments) == IF "col" \in arguments.keys THEN arguments.col ELSE JNone

\* ------------------------------------------------------- emulator facade
\* a call on the facade: op, and the arguments of press_buttons
EmuCall(op, buttons, wait) == [op |-> op, buttons |-> buttons, wait |-> wait]
EmuRead(op) == EmuCall(op, JNone, TRUE)

\* emulator.press_buttons iterates over its argument: a value that is not a
\* list makes it raise
PressButtonsRaises(buttons) == buttons.t # "list"

\* what find_path may return: a status token and a path, or no path
Directions == {"up", "left"}
SeqsUpTo(S, n) == UNION {[1..k -> S] : k \in 0..n}
FindPath(status, path, none) == [status |-> status, path |-> path, none |-> none]
NoFindPath == FindPath("blocked", <<>>, TRUE)
\* every result, for the dispatcher taken alone
AllFindPathResults ==
    [status : {"success", "blocked"}, path : SeqsUpTo(Directions, MaxPath), none : {FALSE}]
    \cup {NoFindPath}
\* the results the step loop is run with
FindPathResults == {NoFindPath, FindPath("success", <<"up", "left">>, FALSE)}

\* ----------------------------------------------------------- tool reports
Report(kind, detail, n, status) == [kind |-> kind, detail |-> detail, n |-> n, status |-> status]
NoReport == Report("none", <<>>, 0, "")

\* the outcome of one _process_tool_call: raised or returned, the report
\* returned and the facade calls made, in order
Outcome(raised, report, calls) == [raised |-> raised, report |-> report, calls |-> calls]

\* lines 141-178
PressButtonsBranch(arguments) ==
    LET buttons == GetButtons(arguments)
        wait == GetWait(arguments)
        press == EmuCall("press_buttons", buttons, wait)
    IN IF PressButtonsRaises(buttons)
       THEN Outcome(FALSE, Report("Error processing button press", <<>>, 0, ""), <<press>>)
       ELSE Outcome(FALSE, Report("Action: Pressed buttons", buttons.items, 0, ""),
                    <<press, EmuRead("get_state_from_memory"), EmuRead("get_location"),
                      EmuRead("get_active_dialog"), EmuRead("get_collision_map")>>)

\* as ReplayPath, the whole path in one press_buttons call
ReplayPathAtOnce(path) ==
    IF path = <<>> THEN <<>> ELSE <<EmuCall("press_buttons", JList(path), TRUE)>>

\* lines 187-188: one press_buttons([direction], True) per move
ReplayPath(path) == [i \in 1..Len(path) |-> EmuCall("press_buttons", JList(<<path[i]>>), TRUE)]

\* as NavigateBranch, an empty path taken for a path
NavigateBranchEmptyIsPath(arguments, fp) ==
    LET find == EmuCall("find_path", JList(<<>>), TRUE)
        after == <<EmuRead("get_screenshot"), EmuRead("get_state_from_memory"),
                   EmuRead("get_collision_map")>>
    IN IF ~fp.none
       THEN Outcome(FALSE, Report("Navigation successful", <<>>, Len(fp.path), fp.status),
                    <<find>> \o ReplayPath(fp.path) \o after)
       ELSE Outcome(FALSE, Report("Navigation failed", <<>>, 0, fp.status), <<find>> \o after)

\* lines 180-207
NavigateBranch(arguments, fp) ==
    LET find == EmuCall("find_path", JList(<<>>), TRUE)
        after == <<EmuRead("get_screenshot"), EmuRead("get_state_from_memory"),
                   EmuRead("get_collision_map")>>
    IN IF ~fp.none /\ fp.path # <<>>
       THEN Outcome(FALSE, Report("Navigation successful", <<>>, Len(fp.path), fp.status),
                    <<find>> \o ReplayPath(fp.path) \o after)
       ELSE Outcome(FALSE, Report("Navigation failed", <<>>, 0, fp.status), <<find>> \o after)

\* as ProcessToolCall, the arguments read before the name is looked at
ProcessToolCallReadsFirst(tc, fp) ==
    LET arguments == DecodeArguments(tc.arguments)
    IN IF ~HasGet(arguments)
       THEN Outcome(TRUE, NoReport, <<>>)
       ELSE IF tc.name = "press_buttons"
            THEN PressButtonsBranch(arguments)
            ELSE IF tc.name = "navigate_to"
                 THEN NavigateBranch(arguments, fp)
                 ELSE Outcome(FALSE, Report("Error: Unknown tool", <<tc.name>>, 0, ""), <<>>)

\* line 185 is reached: the call is navigate_to and its arguments have get
CallsFindPath(tc) == tc.name = "navigate_to" /\ HasGet(DecodeArguments(tc.arguments))

\* lines 130-210
ProcessToolCall(tc, fp) ==
    LET arguments == DecodeArguments(tc.arguments)
    IN IF tc.name \in {"press_buttons", "navigate_to"}
       THEN IF ~HasGet(arguments)
            THEN Outcome(TRUE, NoReport, <<>>)
            ELSE IF tc.name = "press_buttons"
                 THEN PressButtonsBranch(arguments)
                 ELSE NavigateBranch(arguments, fp)
       ELSE Outcome(FALSE, Report("Error: Unknown tool", <<tc.name>>, 0, ""), <<>>)

\* -------------------------------------------------------------- transcript
\* a part of a turn's content: text is the list of the pieces the code
\* concatenates, n a number it interpolates
Part(type, text, n) == [type |-> type, text |-> text, n |-> n]
TextPart(text, n) == Part("text", text, n)
ImagePart(url) == Part("image_url", <<url>>, 0)
\* a content that is a plain string and not a list of parts
Str(s) == <<Part("str", <<s>>, 0)>>

Turn(role, content) == [role |-> role, content |-> content]

\* as InitialHistory, no opening turn
InitialHistoryEmpty == <<>>

\* lines 106-108
InitialHistory == <<Turn("user", Str("You may now begin playing."))>>

\* get_screenshot and get_screenshot_base64: the data URI of the frame shown
\* (of the frame counter the model keeps the parity)
Screenshot(f) == IF f = 0 THEN "data:image/png;base64,frame0" ELSE "data:image/png;base64,frame1"

\* lines 226-241
UserContent(f) == <<TextPart(<<"GAME STATE", "memory_info">>, 0), ImagePart(Screenshot(f))>>

\* the texts message.content may hold; "" stands for an absent content
Contents == {"", "reasoning"}

\* as AppendStepTurns, the two turns in the other order
AppendStepTurnsSwapped(h, uc, c) ==
    Append(Append(h, Turn("assistant", Str(c))), Turn("user", uc))

\* the recap the summary request returns (line 323); one text stands for all
Summaries == {"recap"}

\* lines 275-276
AppendStepTurns(h, uc, c) ==
    Append(Append(h, Turn("user", uc)), Turn("assistant", Str(c)))

\* as ShouldCompact, with > for >=
ShouldCompactStrict(h, mh) == Len(h) > mh

\* line 285
ShouldCompact(h, mh) == Len(h) >= mh

\* as SummaryHistory, the image before the recap
SummaryHistoryImageFirst(mh, summary_text, shot) ==
    <<Turn("user", <<ImagePart(shot),
                     TextPart(<<"CONVERSATION HISTORY SUMMARY", summary_text>>, mh),
                     TextPart(<<"You may now continue playing by selecting your next action.">>, 0)>>)>>

\* lines 329-354
SummaryHistory(mh, summary_text, shot) ==
    <<Turn("user", <<TextPart(<<"CONVERSATION HISTORY SUMMARY", summary_text>>, mh),
                     ImagePart(shot),
                     TextPart(<<"You may now continue playing by selecting your next action.">>, 0)>>)>>

\* ---------------------------------------------------------------- requests
\* line 243 and line 311: the system turn is synthesized for each request
SystemTurn == Turn("system", Str("SYSTEM_PROMPT"))
\* line 313
InstructionTurn == Turn("user", Str("SUMMARY_PROMPT"))

\* a request to the reasoning service: its messages, and whether the tool
\* specifications are sent with it
Request(kind, messages, tools) == [kind |-> kind, messages |-> messages, tools |-> tools]

\* as StepRequest, the system turn not inserted
StepRequestNoSystem(h, uc) == Request("step", h \o <<Turn("user", uc)>>, TRUE)

\* lines 219, 243-253: a copy of the history, the system turn inserted at
\* position 0, the new user turn appended, sent with the tools
StepRequest(h, uc) == Request("step", <<SystemTurn>> \o h \o <<Turn("user", uc)>>, TRUE)

\* lines 310-321: sent without tools
SummaryRequest(h) == Request("summary", <<SystemTurn>> \o h \o <<InstructionTurn>>, FALSE)

\* the requests still in flight once the latest one has returned or raised
Answered(q) == SubSeq(q, 1, Len(q) - 1)

\* ------------------------------------------------------------- tool calls
ToolNames == {"press_buttons", "navigate_to", "fly"}
ToolCall(name, arguments) == [name |-> name, arguments |-> arguments]
\* every name with every argument text, for the dispatcher taken alone
AllToolCalls == [name : ToolNames, arguments : AllRawArguments]
\* the tool calls the responses of the step loop are made of
ToolCalls ==
    {ToolCall("press_buttons", ArgsBoth), ToolCall("press_buttons", ArgsList),
     ToolCall("navigate_to", ArgsBoth), ToolCall("fly", ArgsList)}
Responses == SeqsUpTo(ToolCalls, MaxCalls)

\* ------------------------------------------------------------------ state
VARIABLES
    max_history,      \* OpenAIAgent.max_history
    message_history,  \* OpenAIAgent.message_history
    running,          \* OpenAIAgent.running
    emuStopped,       \* emulator.stop() has been called
    frame,            \* the frame the emulator shows
    fg,               \* main: "manual", "autonomous" or "done"
    pc,               \* the background worker's position
    steps_completed,  \* run(): local counter
    user_content,     \* run(): the observation of the step
    content,          \* run(): message.content of the response
    tool_calls,       \* run(): the tool calls of the response
    idx,              \* run(): position of the for loop over tool_calls
    summary_shot,     \* summarize_history(): screenshot_b64
    histAtStart,      \* history: message_history when the step began
    dispatched,       \* history: the tool calls dispatched in this step
    outcome,          \* history: outcome of the latest _process_tool_call
    found,            \* history: what find_path returned to the latest dispatch
    events,           \* history: the events of the step, in order
    reached,          \* history: the step's appends brought the length to max_history
    compacted,        \* history: summarize_history replaced the history in the step
    last_step,        \* history: "none", "running", "completed", "interrupted", "failed"
    in_flight,        \* the requests sent to the reasoning service and not yet answered
    workers,          \* history: the number of background threads main has started
    returned,         \* history: <<v>> when the latest call of run returned v, else <<>>
    caught            \* history: the latest call of run caught a cancellation signal

vars == <<max_history, message_history, running, emuStopped, frame, fg, pc,
          steps_completed, user_content, content, tool_calls, idx, summary_shot,
          histAtStart, dispatched, outcome, found, events, reached, compacted, last_step,
          in_flight, workers, returned, caught>>

agentVars == <<max_history, message_history, running>>
stepVars == <<steps_completed, user_content, content, tool_calls, idx, summary_shot,
              histAtStart, dispatched, outcome, found, events, reached, compacted, last_step,
              in_flight, returned, caught>>

NoOutcome == Outcome(FALSE, NoReport, <<>>)

\* the values of --max-history (main lines 44-49)
MaxHistoryValues == (0..3) \cup {MaxHist}

\* as Init, the worker started before the manual phase
InitWorkerStarted ==
    /\ max_history \in MaxHistoryValues
    /\ message_history = InitialHistory
    /\ running = TRUE
    /\ emuStopped = FALSE
    /\ frame = 0
    /\ fg = "manual"
    /\ pc = "ai_loop"
    /\ steps_completed = 0
    /\ user_content = <<>>
    /\ content = ""
    /\ tool_calls = <<>>
    /\ idx = 1
    /\ summary_shot = ""
    /\ histAtStart = <<>>
    /\ dispatched = <<>>
    /\ outcome = NoOutcome
    /\ found = NoFindPath
    /\ events = <<>>
    /\ reached = FALSE
    /\ compacted = FALSE
    /\ last_step = "none"
    /\ in_flight = <<>>
    /\ workers = 1
    /\ returned = <<>>
    /\ caught = FALSE

\* main: the agent is constructed (lines 100-112) and the manual phase begins
Init ==
    /\ max_history \in MaxHistoryValues
    /\ message_history = InitialHistory
    /\ running = TRUE
    /\ emuStopped = FALSE
    /\ frame = 0
    /\ fg = "manual"
    /\ pc = "idle"
    /\ steps_completed = 0
    /\ user_content = <<>>
    /\ content = ""
    /\ tool_calls = <<>>
    /\ idx = 1
    /\ summary_shot = ""
    /\ histAtStart = <<>>
    /\ dispatched = <<>>
    /\ outcome = NoOutcome
    /\ found = NoFindPath
    /\ events = <<>>
    /\ reached = FALSE
    /\ compacted = FALSE
    /\ last_step = "none"
    /\ in_flight = <<>>
    /\ workers = 0
    /\ returned = <<>>
    /\ caught = FALSE

\* ------------------------------------------------------------- foreground
\* emulator.tick(frames_per_step): frames_per_step is 1 or 5, as the speed
\* keys last set it
FramesPerStep == {1, 5}
Tick(f, n) == (f + n) % 2

\* as AgentStop, the emulator not stopped
AgentStopFlagOnly ==
    /\ running' = FALSE
    /\ UNCHANGED emuStopped

\* OpenAIAgent.stop, lines 358-361
AgentStop ==
    /\ running' = FALSE
    /\ emuStopped' = TRUE

\* main lines 105-123: one round of the manual loop that does not hand off
\* (no key, a speed key or any key but the handoff key)
ManualTick(n) ==
    /\ fg = "manual"
    /\ frame' = Tick(frame, n)
    /\ UNCHANGED <<agentVars, emuStopped, fg, pc, stepVars, workers>>

\* as Handoff, the manual loop not left after the worker is started
HandoffNoBreak(n) ==
    /\ fg = "manual"
    /\ frame' = Tick(frame, n)
    /\ pc' = "ai_loop"
    /\ workers' = workers + 1
    /\ UNCHANGED <<agentVars, emuStopped, fg, stepVars>>

\* main lines 112-113 and 142-143: the handoff key starts the worker
Handoff(n) ==
    /\ fg = "manual"
    /\ frame' = Tick(frame, n)
    /\ fg' = "autonomous"
    /\ pc' = "ai_loop"
    /\ workers' = workers + 1
    /\ UNCHANGED <<agentVars, emuStopped, stepVars>>

\* main lines 125-128
ManualInterrupt ==
    /\ fg = "manual"
    /\ AgentStop
    /\ fg' = "done"
    /\ UNCHANGED <<max_history, message_history, frame, pc, stepVars, workers>>

\* main lines 148-166: one round of the autonomous loop that does not quit
\* (no key, a speed key or any key but the quit key)
AutoTick(n) ==
    /\ fg = "autonomous"
    /\ frame' = Tick(frame, n)
    /\ UNCHANGED <<agentVars, emuStopped, fg, pc, stepVars, workers>>

\* as AutoQuit, the round waiting for the worker's request to be answered
AutoQuitWaits(n) ==
    /\ fg = "autonomous"
    /\ in_flight = <<>>
    /\ frame' = Tick(frame, n)
    /\ AgentStop
    /\ fg' = "done"
    /\ UNCHANGED <<max_history, message_history, pc, stepVars, workers>>

\* main lines 154-156 and 170-171: the quit key
AutoQuit(n) ==
    /\ fg = "autonomous"
    /\ frame' = Tick(frame, n)
    /\ AgentStop
    /\ fg' = "done"
    /\ UNCHANGED <<max_history, message_history, pc, stepVars, workers>>

\* main lines 168-171
AutoInterrupt ==
    /\ fg = "autonomous"
    /\ AgentStop
    /\ fg' = "done"
    /\ UNCHANGED <<max_history, message_history, frame, pc, stepVars, workers>>

\* ------------------------------------------------------ background worker
\* ai_loop line 135: call agent.run(num_steps=args.steps); run line 216
CallRun ==
    /\ pc = "ai_loop"
    /\ steps_completed' = 0
    /\ pc' = "while"
    /\ returned' = <<>>
    /\ caught' = FALSE
    /\ UNCHANGED <<agentVars, emuStopped, frame, fg, user_content, content,
                   tool_calls, idx, summary_shot, histAtStart, dispatched, outcome, found,
                   events, reached, compacted, last_step, in_flight, workers>>

\* run line 217
LoopCondition == running /\ steps_completed < NumSteps

\* as ReturnFromRun, the emulator left as it is
ReturnFromRunKeepsEmulator ==
    /\ pc = "while"
    /\ ~LoopCondition
    /\ pc' = "ai_loop"
    /\ returned' = <<steps_completed>>
    /\ UNCHANGED <<agentVars, emuStopped, frame, fg, steps_completed, user_content, content,
                   tool_calls, idx, summary_shot, histAtStart, dispatched, outcome, found,
                   events, reached, compacted, last_step, in_flight, workers, caught>>

\* run lines 298-301 and ai_loop line 136: the loop ends, the emulator is
\* stopped when running is false, run returns and ai_loop sleeps
ReturnFromRun ==
    /\ pc = "while"
    /\ ~LoopCondition
    /\ emuStopped' = (emuStopped \/ ~running)
    /\ pc' = "ai_loop"
    /\ returned' = <<steps_completed>>
    /\ UNCHANGED <<agentVars, frame, fg, steps_completed, user_content, content, tool_calls,
                   idx, summary_shot, histAtStart, dispatched, outcome, found, events,
                   reached, compacted, last_step, in_flight, workers, caught>>

\* run lines 219-253: capture the observation, build the request and send it
BeginStep ==
    /\ pc = "while"
    /\ LoopCondition
    /\ user_content' = UserContent(frame)
    /\ histAtStart' = message_history
    /\ content' = ""
    /\ tool_calls' = <<>>
    /\ idx' = 1
    /\ dispatched' = <<>>
    /\ outcome' = NoOutcome
    /\ found' = NoFindPath
    /\ events' = <<"capture", "request">>
    /\ reached' = FALSE
    /\ compacted' = FALSE
    /\ last_step' = "running"
    /\ in_flight' = Append(in_flight, StepRequest(message_history, user_content'))
    /\ pc' = "request"
    /\ UNCHANGED <<agentVars, emuStopped, frame, fg, steps_completed,
                   summary_shot, workers, returned, caught>>

\* as RequestReturns, the two turns not appended before the dispatch
RequestReturnsNoAppend(c, calls) ==
    /\ pc = "request"
    /\ content' = c
    /\ tool_calls' = calls
    /\ idx' = 1
    /\ reached' = (Len(message_history) + 2 >= max_history)
    /\ in_flight' = Answered(in_flight)
    /\ pc' = "dispatch"
    /\ UNCHANGED <<max_history, message_history, running, emuStopped, frame, fg,
                   steps_completed, user_content, summary_shot, histAtStart, dispatched,
                   outcome, found, events, compacted, last_step, workers, returned, caught>>

\* run lines 255-276: the response arrives and the two turns are appended
RequestReturns(c, calls) ==
    /\ pc = "request"
    /\ content' = c
    /\ tool_calls' = calls
    /\ message_history' = AppendStepTurns(message_history, user_content, c)
    /\ idx' = 1
    /\ events' = Append(events, "append")
    /\ reached' = (Len(message_history') >= max_history)
    /\ in_flight' = Answered(in_flight)
    /\ pc' = "dispatch"
    /\ UNCHANGED <<max_history, running, emuStopped, frame, fg, steps_completed,
                   user_content, summary_shot, histAtStart, dispatched, outcome, found,
                   compacted, last_step, workers, returned, caught>>

\* as WorkerFails, ai_loop going on to its next call of run
WorkerFailsRetried ==
    /\ pc' = "ai_loop"
    /\ last_step' = "failed"

\* an exception leaves run (lines 294-296) and ends ai_loop (lines 139-140)
WorkerFails ==
    /\ pc' = "dead"
    /\ last_step' = "failed"

\* as RequestRaises, the observation turn appended before the request
RequestRaisesAfterAppend ==
    /\ pc = "request"
    /\ WorkerFails
    /\ in_flight' = Answered(in_flight)
    /\ message_history' = Append(message_history, Turn("user", user_content))
    /\ UNCHANGED <<max_history, running, emuStopped, frame, fg, steps_completed,
                   user_content, content, tool_calls, idx, summary_shot, histAtStart,
                   dispatched, outcome, found, events, reached, compacted, workers,
                   returned, caught>>

\* run line 246 raises
RequestRaises ==
    /\ pc = "request"
    /\ WorkerFails
    /\ in_flight' = Answered(in_flight)
    /\ UNCHANGED <<agentVars, emuStopped, frame, fg, steps_completed,
                   user_content, content, tool_calls, idx, summary_shot, histAtStart,
                   dispatched, outcome, found, events, reached, compacted, workers,
                   returned, caught>>

\* as Dispatch, the tool report appended to the history as a tool turn
DispatchPersistsReport(fp) ==
    /\ pc = "dispatch"
    /\ idx <= Len(tool_calls)
    /\ CallsFindPath(tool_calls[idx]) \/ fp = NoFindPath
    /\ LET tc == tool_calls[idx]
           o == ProcessToolCall(tc, fp)
       IN /\ outcome' = o
          /\ found' = fp
          /\ dispatched' = Append(dispatched, tc)
          /\ events' = Append(events, "dispatch")
          /\ IF o.raised
             THEN WorkerFails /\ UNCHANGED <<idx, message_history>>
             ELSE /\ idx' = idx + 1
                  /\ message_history' = Append(message_history, Turn("tool", Str(o.report.kind)))
                  /\ UNCHANGED <<pc, last_step>>
    /\ UNCHANGED <<max_history, running, emuStopped, frame, fg, steps_completed,
                   user_content, content, tool_calls, summary_shot, histAtStart, reached,
                   compacted, in_flight, workers, returned, caught>>

\* run lines 281-282: one round of the for loop over tool_calls; fp is
\* what find_path returns if the call reaches it
Dispatch(fp) ==
    /\ pc = "dispatch"
    /\ idx <= Len(tool_calls)
    /\ CallsFindPath(tool_calls[idx]) \/ fp = NoFindPath
    /\ LET tc == tool_calls[idx]
           o == ProcessToolCall(tc, fp)
       IN /\ outcome' = o
          /\ found' = fp
          /\ dispatched' = Append(dispatched, tc)
          /\ events' = Append(events, "dispatch")
          /\ IF o.raised
             THEN WorkerFails /\ UNCHANGED idx
             ELSE idx' = idx + 1 /\ UNCHANGED <<pc, last_step>>
    /\ UNCHANGED <<agentVars, emuStopped, frame, fg, steps_completed,
                   user_content, content, tool_calls, summary_shot, histAtStart, reached,
                   compacted, in_flight, workers, returned, caught>>

\* run lines 288-289
\* the locals of an iteration that is over are dead
ClearLocals ==
    /\ user_content' = <<>>
    /\ content' = ""
    /\ tool_calls' = <<>>
    /\ idx' = 1
    /\ summary_shot' = ""
    /\ histAtStart' = <<>>
    /\ dispatched' = <<>>
    /\ outcome' = NoOutcome
    /\ found' = NoFindPath
    /\ events' = <<>>

CompleteStep ==
    /\ steps_completed' = steps_completed + 1
    /\ last_step' = "completed"
    /\ pc' = "while"
    /\ ClearLocals

\* run lines 285-289 when the history is below max_history
FinishStep ==
    /\ pc = "dispatch"
    /\ idx > Len(tool_calls)
    /\ ~ShouldCompact(message_history, max_history)
    /\ CompleteStep
    /\ UNCHANGED <<agentVars, emuStopped, frame, fg, reached, compacted, in_flight, workers,
                   returned, caught>>

\* run lines 285-286 and summarize_history lines 307-321: the summary
\* request is sent
BeginSummarize ==
    /\ pc = "dispatch"
    /\ idx > Len(tool_calls)
    /\ ShouldCompact(message_history, max_history)
    /\ summary_shot' = Screenshot(frame)
    /\ events' = Append(events, "compact")
    /\ pc' = "summarize"
    /\ user_content' = <<>>
    /\ content' = ""
    /\ tool_calls' = <<>>
    /\ idx' = 1
    /\ dispatched' = <<>>
    /\ outcome' = NoOutcome
    /\ found' = NoFindPath
    /\ in_flight' = Append(in_flight, SummaryRequest(message_history))
    /\ UNCHANGED <<agentVars, emuStopped, frame, fg, steps_completed, histAtStart, reached,
                   compacted, last_step, workers, returned, caught>>

\* summarize_history lines 323-356, then run lines 288-289
SummarizeReturns(summary_text) ==
    /\ pc = "summarize"
    /\ message_history' = SummaryHistory(max_history, summary_text, summary_shot)
    /\ compacted' = TRUE
    /\ in_flight' = Answered(in_flight)
    /\ CompleteStep
    /\ UNCHANGED <<max_history, running, emuStopped, frame, fg, reached, workers, returned, caught>>

\* summarize_history line 316 raises
SummarizeRaises ==
    /\ pc = "summarize"
    /\ WorkerFails
    /\ in_flight' = Answered(in_flight)
    /\ UNCHANGED <<agentVars, emuStopped, frame, fg, steps_completed,
                   user_content, content, tool_calls, idx, summary_shot, histAtStart,
                   dispatched, outcome, found, events, reached, compacted, workers,
                   returned, caught>>

\* run lines 291-293: a cancellation signal inside the try block; the call
\* it unwinds, if it is a request, is abandoned
InterruptInRun ==
    /\ pc \in {"request", "dispatch", "summarize"}
    /\ running' = FALSE
    /\ last_step' = "interrupted"
    /\ in_flight' = <<>>
    /\ caught' = TRUE
    /\ pc' = "while"
    /\ ClearLocals
    /\ UNCHANGED <<max_history, message_history, emuStopped, frame, fg, steps_completed,
                   reached, compacted, workers, returned>>

\* ai_loop lines 137-138: a cancellation signal outside run's try block
InterruptInAiLoop ==
    /\ pc \in {"ai_loop", "while"}
    /\ pc' = "cancelled"
    /\ UNCHANGED <<agentVars, emuStopped, frame, fg, stepVars, workers>>

Foreground ==
    \/ \E n \in FramesPerStep : ManualTick(n)
    \/ \E n \in FramesPerStep : Handoff(n)
    \/ ManualInterrupt
    \/ \E n \in FramesPerStep : AutoTick(n)
    \/ \E n \in FramesPerStep : AutoQuit(n)
    \/ AutoInterrupt

Worker ==
    \/ CallRun
    \/ ReturnFromRun
    \/ BeginStep
    \/ \E c \in Contents, calls \in Responses : RequestReturns(c, calls)
    \/ RequestRaises
    \/ \E fp \in FindPathResults : Dispatch(fp)
    \/ FinishStep
    \/ BeginSummarize
    \/ \E summary_text \in Summaries : SummarizeReturns(summary_text)
    \/ SummarizeRaises
    \/ InterruptInRun
    \/ InterruptInAiLoop

Next == Foreground \/ Worker

Spec == Init /\ [][Next]_vars

\* ------------------------------------- the session, the foreground fair
\* main's autonomous loop runs in its own thread and sleeps 1/60 s a round:
\* its rounds are taken again and again, and the operator presses the quit
\* key at some time.  Nothing is assumed of the worker or of the reasoning
\* service: a request may stay unanswered for ever.
SpecLive == Init /\ [][Next]_vars /\ WF_vars(\E n \in FramesPerStep : AutoQuit(n))

\* ------------------------------------------- the dispatcher taken alone
\* The worker has received the response of its first step and is about
\* to dispatch its tool calls: any names, any argument texts.
InitDispatch ==
    /\ max_history \in {3, 4}
    /\ message_history = AppendStepTurns(InitialHistory, UserContent(0), "reasoning")
    /\ running = TRUE
    /\ emuStopped = FALSE
    /\ frame = 0
    /\ fg = "autonomous"
    /\ pc = "dispatch"
    /\ steps_completed = 0
    /\ user_content = UserContent(0)
    /\ content = "reasoning"
    /\ tool_calls \in SeqsUpTo(AllToolCalls, MaxCalls)
    /\ idx = 1
    /\ summary_shot = ""
    /\ histAtStart = InitialHistory
    /\ dispatched = <<>>
    /\ outcome = NoOutcome
    /\ found = NoFindPath
    /\ events = <<"capture", "request", "append">>
    /\ reached = (Len(message_history) >= max_history)
    /\ compacted = FALSE
    /\ last_step = "running"
    /\ in_flight = <<>>
    /\ workers = 1
    /\ returned = <<>>
    /\ caught = FALSE

NextDispatch ==
    \/ \E fp \in AllFindPathResults : Dispatch(fp)
    \/ FinishStep
    \/ BeginSummarize

SpecDispatch == InitDispatch /\ [][NextDispatch]_vars

\* ----------------------------------------------------------------- claims
\* the worker is between steps: no step has begun yet, or the latest step
\* has completed (compaction included)
AtStepBoundary == last_step \in {"none", "completed"}

\* C1 as stated: for every max_history, at a step boundary the Transcript
\* is shorter than max_history.
C1_EveryMaxHistory == AtStepBoundary => Len(message_history) < max_history

\* C1 amended: for max_history >= 2 the Transcript is shorter than
\* max_history at every step boundary; its length is max_history or more
\* only inside a step after the two appends, or after a step was aborted
\* there by a cancellation or an exception.
C1_TranscriptBound ==
    max_history >= 2 =>
        /\ AtStepBoundary => Len(message_history) < max_history
        /\ Len(message_history) >= max_history =>
              \/ pc \in {"dispatch", "summarize"}
              \/ last_step \in {"interrupted", "failed"}

\* a step has completed under max_history >= 2, once with a compaction
\* and once without
C1_Witness ==
    /\ max_history = 4
    /\ last_step = "completed"
    /\ compacted
    /\ steps_completed = 2

\* the content parts of the single turn compaction leaves
IsSummaryTurn(t) ==
    /\ t.role = "user"
    /\ Len(t.content) = 3
    /\ t.content[1].type = "text"
    /\ t.content[1].text[1] = "CONVERSATION HISTORY SUMMARY"
    /\ t.content[1].n = max_history
    /\ t.content[2].type = "image_url"
    /\ t.content[3].type = "text"
    /\ t.content[3].text = <<"You may now continue playing by selecting your next action.">>

C3_TwoTurnsPerStep ==
    [][(last_step = "running" /\ last_step' = "completed" /\ ~compacted') =>
          /\ Len(message_history') = Len(histAtStart) + 2
          /\ message_history' =
                histAtStart \o <<[role |-> "user", content |-> user_content],
                                 [role |-> "assistant", content |-> Str(content)]>>
          /\ Len(user_content) = 2]_vars

\* a step has completed without compaction
C3_Witness ==
    /\ last_step = "completed"
    /\ ~compacted
    /\ Len(message_history) = 3
    /\ message_history[3].role = "assistant"

\* the tool call the latest _process_tool_call was given
LastCall == dispatched[Len(dispatched)]
\* the press_buttons calls among the facade calls of the latest dispatch
PressCalls == SelectSeq(outcome.calls, LAMBDA c : c.op = "press_buttons")
\* the facade calls that only read
ReadOps == {"get_screenshot", "get_state_from_memory", "get_location", "get_active_dialog",
            "get_collision_map"}

\* text that json.loads rejects
IsUndecodable(raw) == json_loads(ArgumentsOrDefault(raw)).kind = "JSONDecodeError"
\* text that json.loads decodes to a value that is not a record
IsNonRecord(raw) == json_loads(ArgumentsOrDefault(raw)).kind \in {"list", "NoneType"}

\* C4 as stated: a tool call whose arguments do not decode to a record
\* returns a report without raising and the worker goes on.
C4_MalformedNeverAborts ==
    (dispatched # <<>> /\ (IsUndecodable(LastCall.arguments) \/ IsNonRecord(LastCall.arguments))) =>
        /\ ~outcome.raised
        /\ outcome.report # NoReport
        /\ idx = Len(dispatched) + 1

\* C5: press_buttons with an argument text that cannot be parsed does not
\* raise, calls the emulator's press_buttons once, with no buttons and
\* wait = true, and returns a report.
C5_UnparsablePress ==
    (dispatched # <<>> /\ LastCall.name = "press_buttons" /\ IsUndecodable(LastCall.arguments)) =>
        /\ ~outcome.raised
        /\ outcome.report # NoReport
        /\ PressCalls = <<[op |-> "press_buttons", buttons |-> JList(<<>>), wait |-> TRUE]>>

C5_Witness ==
    /\ dispatched # <<>>
    /\ LastCall = [name |-> "press_buttons", arguments |-> ArgsBad]
    /\ Len(outcome.calls) = 5
    /\ idx = 2

\* C6: a tool call with an unknown name makes no call on the emulator
\* facade, returns an error report that names the tool, and the loop over
\* the tool calls goes on.
C6_UnknownTool ==
    (dispatched # <<>> /\ LastCall.name \notin {"press_buttons", "navigate_to"}) =>
        /\ outcome.calls = <<>>
        /\ ~outcome.raised
        /\ outcome.report.kind = "Error: Unknown tool"
        /\ outcome.report.detail = <<LastCall.name>>
        /\ idx = Len(dispatched) + 1

C6_Witness ==
    /\ Len(dispatched) = 2
    /\ dispatched[1] = [name |-> "fly", arguments |-> ArgsList]
    /\ LastCall = [name |-> "fly", arguments |-> ArgsBoth]
    /\ idx = 3

\* find_path was called by the latest dispatch
FindPathCalled == outcome.calls # <<>> /\ outcome.calls[1].op = "find_path"
NoPath == found.none \/ found.path = <<>>

\* C7: when find_path returns no path, navigate_to presses no button and
\* makes no other change to the emulator, its report states the failure
\* and the solver's status, and the loop goes on.
C7_NoPath ==
    (dispatched # <<>> /\ FindPathCalled /\ NoPath) =>
        /\ PressCalls = <<>>
        /\ \A i \in 2..Len(outcome.calls) : outcome.calls[i].op \in ReadOps
        /\ ~outcome.raised
        /\ outcome.report.kind = "Navigation failed"
        /\ outcome.report.status = found.status
        /\ idx = Len(dispatched) + 1

C7_Witness ==
    /\ dispatched # <<>>
    /\ LastCall = [name |-> "navigate_to", arguments |-> ArgsBoth]
    /\ FindPathCalled
    /\ found = [status |-> "blocked", path |-> <<>>, none |-> FALSE]
    /\ outcome.report.kind = "Navigation failed"

\* C8: when find_path returns a path of n moves, navigate_to calls
\* press_buttons n times, the i-th call with the i-th move alone and
\* wait = true, and reports success, n steps and the solver's status.
C8_ReplayPath ==
    (dispatched # <<>> /\ FindPathCalled /\ ~NoPath) =>
        /\ Len(PressCalls) = Len(found.path)
        /\ \A i \in 1..Len(found.path) :
              PressCalls[i] = [op |-> "press_buttons", buttons |-> JList(<<found.path[i]>>),
                               wait |-> TRUE]
        /\ ~outcome.raised
        /\ outcome.report.kind = "Navigation successful"
        /\ outcome.report.n = Len(found.path)
        /\ outcome.report.status = found.status

C8_Witness ==
    /\ dispatched # <<>>
    /\ LastCall.name = "navigate_to"
    /\ FindPathCalled
    /\ found = [status |-> "success", path |-> <<"up", "left">>, none |-> FALSE]
    /\ Len(PressCalls) = 2

\* C9 as stated: when the dispatch of a step's tool calls is over, the
\* calls dispatched are the calls of the response, each once, in order.
C9_EveryCallDispatched ==
    /\ pc = "dispatch" => dispatched = SubSeq(tool_calls, 1, idx - 1)
    /\ (pc = "dead" \/ (pc = "dispatch" /\ idx > Len(tool_calls))) =>
          dispatched = tool_calls

\* C10 as stated: no tool call of a step is dispatched after the step's
\* turns have been appended.
C10_DispatchBeforeAppend ==
    \A i, j \in DOMAIN events : (events[i] = "append" /\ events[j] = "dispatch") => j < i

\* the place of an event in a step
Rank(e) ==
    CASE e = "capture" -> 1
      [] e = "request" -> 2
      [] e = "append" -> 3
      [] e = "dispatch" -> 4
      [] e = "compact" -> 5

\* C10 amended: within a step the order is capture, request, append of
\* the two turns, tool dispatch, optional compaction; every tool call is
\* dispatched after the step's turns were appended and before compaction.
C10_StepOrder ==
    /\ \A i, j \in DOMAIN events :
          i < j => \/ Rank(events[i]) < Rank(events[j])
                   \/ (events[i] = "dispatch" /\ events[j] = "dispatch")
    /\ pc = "request" => (message_history = histAtStart /\ dispatched = <<>>)
    /\ (last_step = "running" /\ dispatched # <<>>) =>
          /\ Len(message_history) = Len(histAtStart) + 2
          /\ SubSeq(message_history, 1, Len(histAtStart)) = histAtStart

C10_Witness ==
    /\ pc = "summarize"
    /\ events = <<"capture", "request", "append", "dispatch", "dispatch", "compact">>

\* the request the worker is blocked on, if any
Pending == in_flight[Len(in_flight)]

\* C11: at most one request to the reasoning service is in flight at any
\* time: the worker is blocked on the only request in flight, a summary
\* request is in flight only after the step's own request has returned and
\* its turns were appended, and main starts at most one worker.
C11_OneRequestInFlight ==
    /\ Len(in_flight) <= 1
    /\ workers <= 1
    /\ (in_flight # <<>>) <=> (pc \in {"request", "summarize"})
    /\ pc = "request" => (Pending.kind = "step" /\ events = <<"capture", "request">>)
    /\ pc = "summarize" =>
          /\ Pending.kind = "summary"
          /\ \E i \in DOMAIN events : events[i] = "append"
          /\ events[Len(events)] = "compact"

\* the second step of a batch has sent its summary request
C11_Witness ==
    /\ pc = "summarize"
    /\ steps_completed = 1
    /\ Len(in_flight) = 1
    /\ Pending.kind = "summary"
    /\ workers = 1

\* a cancellation signal was delivered inside the background context: run
\* caught it in a step, or it ended ai_loop
BackgroundCancelled == last_step = "interrupted" \/ pc = "cancelled"

\* C12 as stated: after a cancellation signal inside the background
\* context, while the foreground is still in its autonomous loop, the
\* emulator has not been stopped.
C12_BackgroundCancelLeavesEmulator ==
    (fg = "autonomous" /\ BackgroundCancelled) => ~emuStopped

\* the step taken is the return of run (lines 298-301)
RunReturns == pc = "while" /\ pc' = "ai_loop"
\* the step taken is run's handler catching a cancellation signal
RunCatches == pc \in {"request", "dispatch", "summarize"} /\ last_step' = "interrupted"

C14_ForegroundCancelShutsDown ==
    [][/\ (fg # "done" /\ fg' = "done") => (emuStopped' /\ ~running')
       /\ fg = "done" => (fg' = "done" /\ frame' = frame /\ emuStopped' /\ ~running')
       /\ ((fg = "manual" /\ fg' = "done") \/ (fg = "done" /\ workers = 0)) =>
             /\ workers' = 0
             /\ pc' = "idle"
             /\ in_flight' = <<>>
             /\ last_step' = "none"]_vars

\* the manual phase was cancelled after a tick
C14_Witness ==
    /\ fg = "done"
    /\ workers = 0
    /\ frame = 1
    /\ emuStopped
    /\ ~running

\* the step taken is a request to the reasoning service raising
ServiceCallRaises == pc \in {"request", "summarize"} /\ last_step' = "failed"

\* C15: when a request to the reasoning service raises, the worker ends
\* for good (it sends no further request, dispatches no further tool call
\* and changes neither the Transcript nor its step count), the failure
\* changes neither running nor the emulator nor the foreground, and the
\* foreground's rounds stay enabled.
C15_ServiceFailureEndsWorker ==
    /\ []((pc = "dead" /\ fg = "autonomous") =>
            /\ ENABLED (\E n \in FramesPerStep : AutoTick(n))
            /\ ENABLED (\E n \in FramesPerStep : AutoQuit(n)))
    /\ [][/\ ServiceCallRaises =>
                /\ pc' = "dead"
                /\ in_flight' = <<>>
                /\ UNCHANGED <<running, emuStopped, fg, frame>>
          /\ pc = "dead" =>
                /\ pc' = "dead"
                /\ in_flight' = <<>>
                /\ UNCHANGED <<dispatched, message_history, steps_completed, events>>]_vars

\* the first step's request has raised and the foreground is in its loop
C15_Witness ==
    /\ pc = "dead"
    /\ last_step = "failed"
    /\ events = <<"capture", "request">>
    /\ steps_completed = 0
    /\ fg = "autonomous"
    /\ running
    /\ ~emuStopped

\* C16: the session starts in the manual phase; the phase never goes back
\* to manual; it leaves manual for autonomous exactly in the step that
\* starts the worker, which happens at most once; while the phase is
\* manual no request is in flight, no step has begun and no tool call
\* was dispatched.
C16_PhaseOrder ==
    /\ fg = "manual"
    /\ [](/\ workers <= 1
          /\ fg = "autonomous" => workers = 1
          /\ fg = "manual" =>
                /\ workers = 0
                /\ pc = "idle"
                /\ in_flight = <<>>
                /\ last_step = "none"
                /\ events = <<>>
                /\ dispatched = <<>>)
    /\ [][/\ fg' = "manual" => fg = "manual"
          /\ fg = "autonomous" => fg' \in {"autonomous", "done"}
          /\ (fg = "manual" /\ fg' = "autonomous") <=> (workers' = workers + 1)
          /\ workers' # workers => (pc = "idle" /\ pc' = "ai_loop")]_vars

\* the worker sends a request in the autonomous phase
C16_Witness ==
    /\ fg = "autonomous"
    /\ workers = 1
    /\ pc = "request"
    /\ steps_completed = 1

\* C17: in the autonomous phase, while a request of the worker is in
\* flight, the foreground's rounds (the one that only ticks, the one that
\* reads the quit key) are enabled; and with the foreground scheduled
\* fairly, even if the request is never answered, the quit key is handled:
\* the foreground loop ends with the emulator stopped and running false.
C17_ForegroundNeverStalled ==
    /\ []((fg = "autonomous" /\ in_flight # <<>>) =>
            /\ ENABLED (\E n \in FramesPerStep : AutoTick(n))
            /\ ENABLED (\E n \in FramesPerStep : AutoQuit(n)))
    /\ ((fg = "autonomous" /\ in_flight # <<>>) ~> (fg = "done" /\ emuStopped /\ ~running))

\* the foreground has ticked while the summary request is in flight
C17_Witness ==
    /\ fg = "autonomous"
    /\ pc = "summarize"
    /\ in_flight # <<>>
    /\ summary_shot # Screenshot(frame)

\* C18: while the tool calls of a step are dispatched, and after one of
\* them raised, the Transcript is the Transcript the step began with
\* followed by the observation turn and the assistant turn, whatever the
\* tool calls and their outcomes: no turn was added for a tool call or for
\* a tool report.
C18_DispatchLeavesTranscript ==
    (last_step \in {"running", "failed"} /\ (pc = "dispatch" \/ dispatched # <<>>)) =>
        /\ message_history =
              histAtStart \o <<[role |-> "user", content |-> user_content],
                               [role |-> "assistant", content |-> Str(content)]>>
        /\ \A i \in DOMAIN message_history : message_history[i].role \in {"user", "assistant"}

\* two tool calls were dispatched, one ending in an error report of the
\* emulator and one in a navigation
C18_Witness ==
    /\ dispatched = <<[name |-> "press_buttons", arguments |-> ArgsPressNum],
                      [name |-> "navigate_to", arguments |-> ArgsBoth]>>
    /\ outcome.report.kind = "Navigation successful"
    /\ idx = 3
    /\ Len(message_history) = 3

\* C19: no turn of the persisted Transcript has the system role, and every
\* request in flight is the system turn, then the whole Transcript, then
\* one more user turn: the observation for a step request, sent with the
\* tools, the instruction for a summary request, sent without tools.
C19_RequestShape ==
    /\ \A i \in DOMAIN message_history : message_history[i].role \in {"user", "assistant"}
    /\ \A k \in DOMAIN in_flight :
          LET r == in_flight[k]
              last == r.messages[Len(r.messages)]
          IN /\ Len(r.messages) = Len(message_history) + 2
             /\ r.messages[1].role = "system"
             /\ \A i \in 2..Len(r.messages) : r.messages[i].role # "system"
             /\ SubSeq(r.messages, 2, Len(r.messages) - 1) = message_history
             /\ r.kind = "step" =>
                   (last = [role |-> "user", content |-> user_content] /\ r.tools)
             /\ r.kind = "summary" =>
                   (last = [role |-> "user", content |-> Str("SUMMARY_PROMPT")] /\ ~r.tools)

\* a step request is in flight that carries a Transcript of three turns
C19_Witness ==
    /\ pc = "request"
    /\ Len(in_flight) = 1
    /\ Len(Pending.messages) = 5
    /\ Pending.tools

\* the step taken is the step request raising
StepRequestRaises == pc = "request" /\ pc' = "dead"

\* C20: from the beginning of a step until its request returns or raises,
\* the Transcript, the count of completed steps and the tool calls
\* dispatched are what they were when the step began, and the step has
\* done nothing but capture and request; when the request raises, that
\* step changes none of them, nor running, nor the emulator.
C20_FailedRequestLeavesState ==
    [][/\ pc' = "request" =>
             /\ message_history' = histAtStart'
             /\ steps_completed' = steps_completed
             /\ dispatched' = <<>>
             /\ events' = <<"capture", "request">>
       /\ StepRequestRaises =>
             /\ message_history' = histAtStart
             /\ dispatched' = <<>>
             /\ outcome'.calls = <<>>
             /\ last_step' = "failed"
             /\ UNCHANGED <<message_history, steps_completed, running, emuStopped, frame>>]_vars

\* the request of the second step has raised
C20_Witness ==
    /\ pc = "dead"
    /\ events = <<"capture", "request">>
    /\ steps_completed = 1
    /\ Len(message_history) = 3
    /\ message_history = histAtStart

\* the length of the Transcript is odd
OddLength == Len(message_history) % 2 = 1
\* the worker is at the compaction check of line 285 or past it, in
\* summarize_history
AtCompactionCheck == (pc = "dispatch" /\ idx > Len(tool_calls)) \/ pc = "summarize"

\* C21 as stated: the Transcript length is odd at every step boundary and
\* at the compaction check, and for max_history >= 1 it never exceeds
\* max_history + 1.
C21_NeverAboveMaxPlusOne ==
    /\ AtStepBoundary => OddLength
    /\ AtCompactionCheck => OddLength
    /\ max_history >= 1 => Len(message_history) <= max_history + 1

\* C21 amended: the Transcript length is odd at every step boundary and
\* at the compaction check; it is 1 at the start and after a compaction;
\* compaction fires at length max_history + 1 when max_history is even
\* and at least 2, at length max_history when it is odd and at least 3,
\* and at length 3 when max_history is 0 or 1; the length never exceeds
\* max_history + 1 for max_history >= 2, and never exceeds 3 otherwise.
C21_OddLength ==
    /\ AtStepBoundary => OddLength
    /\ AtCompactionCheck => OddLength
    /\ (last_step = "none" \/ (last_step = "completed" /\ compacted)) =>
          Len(message_history) = 1
    /\ pc = "summarize" =>
          Len(message_history) =
              IF max_history <= 1 THEN 3
              ELSE IF max_history % 2 = 0 THEN max_history + 1 ELSE max_history
    /\ Len(message_history) <= (IF max_history <= 1 THEN 3 ELSE max_history + 1)

\* with an even max_history, compaction fires at length max_history + 1
C21_Witness ==
    /\ pc = "summarize"
    /\ max_history = 4
    /\ Len(message_history) = 5
    /\ steps_completed = 1

\* the facade operations that act on the emulator
ActingOps == {"press_buttons", "find_path"}
\* the step taken is a foreground round that ticks the emulator
TickStep == frame' # frame
\* the step taken is a dispatch that calls an acting operation of the facade
ActingDispatchStep ==
    /\ Len(dispatched') = Len(dispatched) + 1
    /\ \E i \in DOMAIN outcome'.calls : outcome'.calls[i].op \in ActingOps

\* C22 as stated: once the emulator has been stopped no step ticks it and
\* no dispatch calls press_buttons or find_path on it, and running, once
\* false, stays false.
C22_NoActionAfterStop ==
    [][/\ emuStopped => (~TickStep /\ ~ActingDispatchStep)
       /\ ~running => ~running']_vars

====
